---- MODULE Spec2Model ----
(***************************************************************************)
(* KlingBot: the balance ledger (database.py), the generation wizard and   *)
(* the background polling task (handlers/generate.py), the price table     *)
(* (utils/kling_api.py) and the provider callback endpoint (webapp.py).    *)
(*                                                                         *)
(* All handlers are coroutines of one asyncio event loop: code between two *)
(* awaits runs without interleaving, so one action is the code from one    *)
(* await to the next.  The Supabase client is synchronous: a Database      *)
(* method is never interleaved with another handler.                       *)
(*                                                                         *)
(* Spec is the ledger, the review and confirm steps of Text-to-Video, the  *)
(* polling task and the callback; WizardSpec is the wizard of the three    *)
(* modes up to the review; SessionSpec is the Text-to-Video wizard with    *)
(* its confirm step; PollSpec is one request and its polling task without  *)
(* the callback, FairPollSpec the same under weak fairness of the task;    *)
(* PricingSpec and MotionPricingSpec apply the price tables to durations   *)
(* other than those the wizard stores; RecordSpec is the review and        *)
(* confirm steps with an insert into generations that may fail; ReviewSpec *)
(* is the Text-to-Video wizard with its review handler in two steps, as    *)
(* concurrent updates see it; SenderSpec is one call of send_video_result  *)
(* (utils/result_sender.py).                                               *)
(*                                                                         *)
(* An exception that a handler does not catch ends the handler: the model  *)
(* follows the try/except blocks of the code (the gateway call, the        *)
(* uploads, the sends inside the try of the confirm handlers and of the    *)
(* polling loop) and takes the other Telegram sends to return.             *)
(***************************************************************************)
EXTENDS Integers, Sequences, FiniteSets, TLC

VARIABLES
    balance,        \* users.balance of the user
    generations,    \* generations table: row id = index
    taskState,      \* provider side: state of the task of generation id
    poll,           \* poll_task_and_send_result task of generation id
    fsm,            \* FSM state of the conversation (MemoryStorage)
    fsmCost,        \* "cost" entry of the FSM data (0: no entry)
    fsmData,        \* the other entries of the FSM data: a function from keys to values
    inflight,       \* t2v_confirm invocations awaiting the gateway (their cost)
    lastCallback,   \* last request served by /callback/kling and its response
    lastPoll,       \* history (PollSpec only): the last get_task_status response handled
    sendFailures,   \* number of Telegram sends that have raised so far
    confirms,       \* number of t2v_confirm invocations so far
    initBalance,    \* history: the balance in the initial state
    ledger,         \* history: sum of the amounts of the balance updates that returned True
    balanceBefore,  \* history: per generation, the balance before its confirm-time debit
    debits,         \* history: number of successful confirm-time debits
    refunds,        \* history: per generation, number of credits of its cost by poll/callback
    redebits,       \* history: per generation, number of late-recovery debits that returned True
    writes,         \* history: per generation, number of update_generation calls
    session,        \* history: "open" since a mode selection, "cancelled" since
                    \* callback_gen_cancel, "closed" since any other state.clear()
    sender,         \* one call of send_video_result (SenderSpec only)
    awaiting        \* review handlers awaiting their edit_text (ReviewSpec only)

vars == <<balance, generations, taskState, poll, fsm, fsmCost, fsmData, inflight,
          lastCallback, lastPoll, sendFailures, confirms, initBalance, sender, awaiting, ledger,
          balanceBefore, debits, refunds, redebits, writes, session>>

\* the variables that no step of the wizard before the confirm changes
ledgerVars == <<balance, generations, taskState, poll, inflight, lastCallback, lastPoll,
                sendFailures, confirms, initBalance, sender, awaiting, ledger, balanceBefore,
                debits, refunds, redebits, writes>>

----------------------------------------------------------------------------
(* Bounds of the model *)

MaxGen == 1            \* generation rows created
MaxConfirms == 2       \* t2v_confirm invocations
MaxSendFail == 2       \* Telegram sends that raise
MaxDuration == 15      \* PricingSpec: the durations priced are 0..MaxDuration
MaxVideoDuration == 31 \* MotionPricingSpec: the video durations priced

(* Program constants *)

max_attempts == 60             \* generate.py:98
DefaultBalance == 6            \* database.py:97
T2V_I2V_5S_NO_AUDIO == 55      \* kling_api.py:99
T2V_I2V_10S_NO_AUDIO == 110    \* kling_api.py:100
T2V_I2V_5S_WITH_AUDIO == 110   \* kling_api.py:101
T2V_I2V_10S_WITH_AUDIO == 220  \* kling_api.py:102
HubAmountSmall == 50           \* config.py:28 hub_allowed_amounts
HubAmountMedium == 120         \* config.py:28
HubAmountLarge == 300          \* config.py:28
MC_720P_PER_SEC == 6           \* kling_api.py:105
MC_1080P_PER_SEC == 9          \* kling_api.py:106
MC_MIN_DURATION == 5           \* kling_api.py:107

\* a new user's balance, or that balance after one top-up through the hub bot
InitBalances == {DefaultBalance, DefaultBalance + HubAmountSmall,
                 DefaultBalance + HubAmountMedium}

Durations == {5, 10}

\* the values that the buttons of the wizard carry in their callback data
Modes == {"t2v", "i2v", "mc"}
AspectRatios == {"16:9", "9:16", "1:1"}
DurationButtons == {"5", "10"}
Orientations == {"image", "video"}
Qualities == {"720p", "1080p"}

\* message.text of a prompt message
PromptTexts == {"a cat"}

\* video.duration of a reference video, in seconds ("video.duration or 0": 0
\* also stands for a video without a duration)
VideoDurations == {0, 2, 3, 30, 31}

----------------------------------------------------------------------------
(* utils/kling_api.py *)

\* get_t2v_i2v_price pricing every duration other than 5 as 10 seconds
get_t2v_i2v_price_else_10s(duration, with_audio) ==
    IF duration = 5
    THEN (IF with_audio THEN T2V_I2V_5S_WITH_AUDIO ELSE T2V_I2V_5S_NO_AUDIO)
    ELSE (IF with_audio THEN T2V_I2V_10S_WITH_AUDIO ELSE T2V_I2V_10S_NO_AUDIO)

get_t2v_i2v_price(duration, with_audio) ==
    IF duration = 5
    THEN (IF with_audio THEN T2V_I2V_5S_WITH_AUDIO ELSE T2V_I2V_5S_NO_AUDIO)
    ELSE IF duration = 10
    THEN (IF with_audio THEN T2V_I2V_10S_WITH_AUDIO ELSE T2V_I2V_10S_NO_AUDIO)
    ELSE (IF with_audio THEN T2V_I2V_5S_WITH_AUDIO ELSE T2V_I2V_5S_NO_AUDIO)

\* get_motion_control_price without the minimum billable duration
get_motion_control_price_no_minimum(duration, mode) ==
    LET price_per_sec == IF mode = "1080p" THEN MC_1080P_PER_SEC ELSE MC_720P_PER_SEC
    IN  duration * price_per_sec

get_motion_control_price(duration, mode) ==
    LET effective_duration == IF MC_MIN_DURATION > duration
                              THEN MC_MIN_DURATION ELSE duration
        price_per_sec == IF mode = "1080p" THEN MC_1080P_PER_SEC ELSE MC_720P_PER_SEC
    IN  effective_duration * price_per_sec

----------------------------------------------------------------------------
(* The FSM context of the conversation (aiogram FSMContext, MemoryStorage) *)

\* the FSM data after state.clear()
EmptyData == [k \in {} |-> ""]

\* state.update_data(key=value)
update_data(data, key, value) ==
    [k \in (DOMAIN data) \cup {key} |-> IF k = key THEN value ELSE data[k]]

\* data.get(key, default)
data_get(data, key, default) ==
    IF key \in DOMAIN data THEN data[key] ELSE default

\* int(text) of the decimal text of a duration
int(text) == CHOOSE n \in 0..99 : ToString(n) = text

\* state.clear(): no state, no data
state_clear ==
    /\ fsm' = "none"
    /\ fsmCost' = 0
    /\ fsmData' = EmptyData

----------------------------------------------------------------------------
(* database.py *)

\* update_user_balance without the check for a negative new balance
update_user_balance_unchecked(bal, amount) ==
    [ok |-> TRUE, balance |-> bal + amount]

\* update_user_balance returning True where it writes nothing
update_user_balance_reports_true(bal, amount) ==
    LET new_balance == bal + amount
    IN  IF new_balance < 0
        THEN [ok |-> TRUE, balance |-> bal]
        ELSE [ok |-> TRUE, balance |-> new_balance]

\* Database.update_user_balance: [ok |-> return value, balance |-> users.balance after]
update_user_balance(bal, amount) ==
    LET new_balance == bal + amount
    IN  IF new_balance < 0
        THEN [ok |-> FALSE, balance |-> bal]
        ELSE [ok |-> TRUE, balance |-> new_balance]

deduct_balance(bal, amount) == update_user_balance(bal, -amount)

\* Database.create_generation: the inserted row
create_generation(cost) ==
    [cost |-> cost, status |-> "pending", error_message |-> "", video_url |-> ""]

\* an update_generation whose update_data also writes the cost column
update_generation_resets_cost(row, status, video_url, error_message) ==
    [row EXCEPT !.status = status,
                !.cost = 0,
                !.video_url = IF video_url # "" THEN video_url ELSE @,
                !.error_message = IF error_message # "" THEN error_message ELSE @]

\* Database.update_generation: video_url and error_message are written only when truthy
update_generation(row, status, video_url, error_message) ==
    [row EXCEPT !.status = status,
                !.video_url = IF video_url # "" THEN video_url ELSE @,
                !.error_message = IF error_message # "" THEN error_message ELSE @]

\* a get_generation that class Database defines: the row of that id, if any
get_generation_by_id(rows, generation_id) ==
    IF generation_id \in 1..Len(rows)
    THEN [raised |-> FALSE, found |-> TRUE, row |-> rows[generation_id]]
    ELSE [raised |-> FALSE, found |-> FALSE, row |-> create_generation(0)]

\* db.get_generation(id): class Database defines no get_generation (only
\* get_generation_by_task_id), so the attribute lookup raises AttributeError.
get_generation(rows, generation_id) ==
    [raised |-> TRUE, found |-> FALSE, row |-> create_generation(0)]

----------------------------------------------------------------------------
Gens == 1..Len(generations)

\* no call of send_video_result
NoSend == [pc |-> "none"]

\* no get_task_status response handled yet
NoPoll == [generation_id |-> 0, response |-> ""]

Init ==
    /\ balance \in InitBalances
    /\ initBalance = balance
    /\ generations = <<>>
    /\ taskState = <<>>
    /\ poll = <<>>
    /\ fsm = "none"
    /\ fsmCost = 0
    /\ fsmData = EmptyData
    /\ session = "closed"
    /\ inflight = <<>>
    /\ lastPoll = NoPoll
    /\ lastCallback = [response |-> "none", state |-> "", generation_id |-> 0,
                       has_url |-> FALSE, status |-> "",
                       task_id |-> ""]
    /\ sendFailures = 0
    /\ confirms = 0
    /\ ledger = 0
    /\ balanceBefore = <<>>
    /\ debits = 0
    /\ refunds = <<>>
    /\ redebits = <<>>
    /\ writes = <<>>
    /\ sender = NoSend
    /\ awaiting = <<>>

----------------------------------------------------------------------------
(* handlers/generate.py: the review and confirm steps of Text-to-Video *)

\* t2v_audio_selected: computes the cost from the FSM data, stores it, reads the
\* balance and either ends the session (insufficient balance) or asks to confirm.
\* The handler has no state filter.  duration is int(data.get("duration", 5)):
\* Spec, which has no duration step, draws it from Durations.
t2v_audio_selected(duration, with_audio) ==
    LET cost == get_t2v_i2v_price(duration, with_audio)
    IN  /\ IF balance < cost
           THEN state_clear /\ session' = "closed"
           ELSE /\ fsmData' = update_data(fsmData, "with_audio", with_audio)
                /\ fsmCost' = cost
                /\ fsm' = "T2VStates:confirming"
                /\ UNCHANGED session
        /\ UNCHANGED ledgerVars

\* t2v_confirm with a rejected debit leaving the session as it is
t2v_confirm_keeps_session ==
    /\ fsm = "T2VStates:confirming"
    /\ confirms < MaxConfirms
    /\ confirms' = confirms + 1
    /\ LET r == deduct_balance(balance, fsmCost)
       IN  IF ~r.ok
           THEN UNCHANGED <<fsm, fsmCost, fsmData, session, balance, inflight,
                            ledger, debits>>
           ELSE /\ balance' = r.balance
                /\ ledger' = ledger - fsmCost
                /\ debits' = debits + 1
                /\ inflight' = Append(inflight, [cost |-> fsmCost, before |-> balance])
                /\ UNCHANGED <<fsm, fsmCost, fsmData, session>>
    /\ UNCHANGED <<generations, taskState, poll, lastCallback, lastPoll, sendFailures,
                   initBalance, sender, awaiting, balanceBefore, refunds, redebits, writes>>

\* t2v_confirm up to its first await on the gateway: the confirm-time debit
t2v_confirm ==
    /\ fsm = "T2VStates:confirming"
    /\ confirms < MaxConfirms
    /\ confirms' = confirms + 1
    /\ LET r == deduct_balance(balance, fsmCost)
       IN  IF ~r.ok
           THEN /\ state_clear /\ session' = "closed"
                /\ UNCHANGED <<balance, inflight, ledger, debits>>
           ELSE /\ balance' = r.balance
                /\ ledger' = ledger - fsmCost
                /\ debits' = debits + 1
                /\ inflight' = Append(inflight, [cost |-> fsmCost, before |-> balance])
                /\ UNCHANGED <<fsm, fsmCost, fsmData, session>>
    /\ UNCHANGED <<generations, taskState, poll, lastCallback, lastPoll, sendFailures,
                   initBalance, sender, awaiting, balanceBefore, refunds, redebits, writes>>

RemoveAt(s, i) == SubSeq(s, 1, i - 1) \o SubSeq(s, i + 1, Len(s))

\* the except branch of t2v_confirm without its refund
t2v_confirm_gateway_error_no_refund(i) ==
    /\ i \in 1..Len(inflight)
    /\ inflight' = RemoveAt(inflight, i)
    /\ state_clear /\ session' = "closed"
    /\ UNCHANGED <<balance, ledger>>
    /\ UNCHANGED <<generations, taskState, poll, lastCallback, lastPoll, sendFailures, confirms,
                   initBalance, sender, awaiting, balanceBefore, debits, refunds, redebits, writes>>

\* t2v_confirm after create_text_to_video raised or returned no taskId:
\* the except branch refunds the cost and clears the session
t2v_confirm_gateway_error(i) ==
    /\ i \in 1..Len(inflight)
    /\ LET c == inflight[i]
           r == update_user_balance(balance, c.cost)
       IN  /\ balance' = r.balance
           /\ ledger' = IF r.ok THEN ledger + c.cost ELSE ledger
    /\ inflight' = RemoveAt(inflight, i)
    /\ state_clear /\ session' = "closed"
    /\ UNCHANGED <<generations, taskState, poll, lastCallback, lastPoll, sendFailures, confirms,
                   initBalance, sender, awaiting, balanceBefore, debits, refunds, redebits, writes>>

\* t2v_confirm after the gateway returned a taskId: create_generation, the
\* "generation started" message, state.clear() and the start of the polling
\* task.  If the message raises, the except branch refunds the cost and no
\* polling task is started (notified = FALSE).
t2v_confirm_task_created(i, notified) ==
    /\ i \in 1..Len(inflight)
    /\ Len(generations) < MaxGen
    /\ notified \/ sendFailures < MaxSendFail
    /\ LET c == inflight[i]
           r == update_user_balance(balance, c.cost)
       IN  /\ generations' = Append(generations, create_generation(c.cost))
           /\ taskState' = Append(taskState, "waiting")
           /\ balanceBefore' = Append(balanceBefore, c.before)
           /\ refunds' = Append(refunds, 0)
           /\ redebits' = Append(redebits, 0)
           /\ writes' = Append(writes, 0)
           /\ IF notified
              THEN /\ poll' = Append(poll, [pc |-> "sleep", attempt |-> 0])
                   /\ UNCHANGED <<balance, ledger, sendFailures>>
              ELSE /\ poll' = Append(poll, [pc |-> "none", attempt |-> 0])
                   /\ balance' = r.balance
                   /\ ledger' = IF r.ok THEN ledger + c.cost ELSE ledger
                   /\ sendFailures' = sendFailures + 1
    /\ inflight' = RemoveAt(inflight, i)
    /\ state_clear /\ session' = "closed"
    /\ UNCHANGED <<lastCallback, lastPoll, confirms, initBalance, sender, awaiting, debits>>

\* t2v_confirm after the gateway returned a taskId and create_generation
\* returned None (the insert raised and Database.create_generation caught it):
\* the "generation started" message and state.clear() follow as usual, and
\* `if generation:` starts no polling task.  If the message raises, the except
\* branch refunds the cost (notified = FALSE).
t2v_confirm_record_failed(i, notified) ==
    /\ i \in 1..Len(inflight)
    /\ notified \/ sendFailures < MaxSendFail
    /\ LET c == inflight[i]
           r == update_user_balance(balance, c.cost)
       IN  IF notified
           THEN UNCHANGED <<balance, ledger, sendFailures>>
           ELSE /\ balance' = r.balance
                /\ ledger' = IF r.ok THEN ledger + c.cost ELSE ledger
                /\ sendFailures' = sendFailures + 1
    /\ inflight' = RemoveAt(inflight, i)
    /\ state_clear /\ session' = "closed"
    /\ UNCHANGED <<generations, taskState, poll, lastCallback, lastPoll, confirms,
                   initBalance, sender, awaiting, balanceBefore, debits, refunds, redebits, writes>>

----------------------------------------------------------------------------
(* handlers/generate.py and handlers/start.py: the wizard *)

\* the states of the three StatesGroup classes, in the order of the wizard
T2VStates ==
    <<"T2VStates:waiting_prompt", "T2VStates:waiting_aspect",
      "T2VStates:waiting_duration", "T2VStates:waiting_audio",
      "T2VStates:confirming">>

I2VStates ==
    <<"I2VStates:waiting_image", "I2VStates:waiting_prompt",
      "I2VStates:waiting_duration", "I2VStates:waiting_audio",
      "I2VStates:confirming">>

MCStates ==
    <<"MCStates:waiting_image", "MCStates:waiting_video",
      "MCStates:waiting_prompt", "MCStates:waiting_orientation",
      "MCStates:waiting_mode", "MCStates:confirming">>

\* the states of the mode that a gen_mode_ button names
Steps(mode) ==
    CASE mode = "t2v" -> T2VStates
      [] mode = "i2v" -> I2VStates
      [] mode = "mc" -> MCStates

\* /generate
cmd_generate ==
    /\ state_clear /\ session' = "closed"
    /\ UNCHANGED ledgerVars

\* the main menu button: show_mode_selection, and nothing else
btn_generate_pressed ==
    UNCHANGED vars

\* a gen_mode_ button: sets the state and leaves the data
callback_gen_mode(mode) ==
    /\ fsm' = Steps(mode)[1]
    /\ session' = "open"
    /\ UNCHANGED <<fsmCost, fsmData>>
    /\ UNCHANGED ledgerVars

\* callback_gen_cancel setting no state and leaving the data
callback_gen_cancel_keeps_data ==
    /\ fsm' = "none"
    /\ session' = "cancelled"
    /\ UNCHANGED <<fsmCost, fsmData>>
    /\ UNCHANGED ledgerVars

\* a gen_cancel button, in any state
callback_gen_cancel ==
    /\ state_clear /\ session' = "cancelled"
    /\ UNCHANGED ledgerVars

\* Text-to-Video.  The three callback handlers have no state filter.

t2v_prompt_received(text) ==
    /\ fsm = "T2VStates:waiting_prompt"
    /\ fsmData' = update_data(fsmData, "prompt", text)
    /\ fsm' = "T2VStates:waiting_aspect"
    /\ UNCHANGED <<fsmCost, session>>
    /\ UNCHANGED ledgerVars

\* t2v_aspect_selected asking for the audio next
t2v_aspect_selected_skips_duration(aspect) ==
    /\ fsmData' = update_data(fsmData, "aspect_ratio", aspect)
    /\ fsm' = "T2VStates:waiting_audio"
    /\ UNCHANGED <<fsmCost, session>>
    /\ UNCHANGED ledgerVars

t2v_aspect_selected(aspect) ==
    /\ fsmData' = update_data(fsmData, "aspect_ratio", aspect)
    /\ fsm' = "T2VStates:waiting_duration"
    /\ UNCHANGED <<fsmCost, session>>
    /\ UNCHANGED ledgerVars

t2v_duration_selected(duration) ==
    /\ fsmData' = update_data(fsmData, "duration", duration)
    /\ fsm' = "T2VStates:waiting_audio"
    /\ UNCHANGED <<fsmCost, session>>
    /\ UNCHANGED ledgerVars

\* Image-to-Video.  uploaded: upload_file_to_storage returned a URL (it raises
\* when bot.get_file does).  Only the two message handlers have a state filter.

i2v_image_received(uploaded) ==
    /\ fsm = "I2VStates:waiting_image"
    /\ IF uploaded
       THEN /\ fsmData' = update_data(fsmData, "image_url", "url")
            /\ fsm' = "I2VStates:waiting_prompt"
            /\ UNCHANGED <<fsmCost, session>>
            /\ UNCHANGED ledgerVars
       ELSE UNCHANGED vars

\* show_i2v_duration: the duration keyboard and the state
show_i2v_duration ==
    fsm' = "I2VStates:waiting_duration"

i2v_prompt_received(text) ==
    /\ fsm = "I2VStates:waiting_prompt"
    /\ fsmData' = update_data(fsmData, "prompt", text)
    /\ show_i2v_duration
    /\ UNCHANGED <<fsmCost, session>>
    /\ UNCHANGED ledgerVars

i2v_prompt_skip ==
    /\ fsmData' = update_data(fsmData, "prompt", "")
    /\ show_i2v_duration
    /\ UNCHANGED <<fsmCost, session>>
    /\ UNCHANGED ledgerVars

i2v_duration_selected(duration) ==
    /\ fsmData' = update_data(fsmData, "duration", duration)
    /\ fsm' = "I2VStates:waiting_audio"
    /\ UNCHANGED <<fsmCost, session>>
    /\ UNCHANGED ledgerVars

\* as t2v_audio_selected
i2v_audio_selected(duration, with_audio) ==
    LET cost == get_t2v_i2v_price(duration, with_audio)
    IN  /\ IF balance < cost
           THEN state_clear /\ session' = "closed"
           ELSE /\ fsmData' = update_data(fsmData, "with_audio", with_audio)
                /\ fsmCost' = cost
                /\ fsm' = "I2VStates:confirming"
                /\ UNCHANGED session
        /\ UNCHANGED ledgerVars

\* Motion Control.  The three message handlers have a state filter.

mc_image_received(uploaded) ==
    /\ fsm = "MCStates:waiting_image"
    /\ IF uploaded
       THEN /\ fsmData' = update_data(fsmData, "image_url", "url")
            /\ fsm' = "MCStates:waiting_video"
            /\ UNCHANGED <<fsmCost, session>>
            /\ UNCHANGED ledgerVars
       ELSE UNCHANGED vars

\* mc_video_received without the check for a video that is too long
mc_video_received_no_maximum(duration, uploaded) ==
    /\ fsm = "MCStates:waiting_video"
    /\ IF duration < 3
       THEN UNCHANGED vars
       ELSE IF uploaded
       THEN /\ fsmData' = update_data(update_data(fsmData, "video_url", "url"),
                                      "video_duration", duration)
            /\ fsm' = "MCStates:waiting_prompt"
            /\ UNCHANGED <<fsmCost, session>>
            /\ UNCHANGED ledgerVars
       ELSE UNCHANGED vars

\* duration is "video.duration or 0"
mc_video_received(duration, uploaded) ==
    /\ fsm = "MCStates:waiting_video"
    /\ IF duration < 3
       THEN UNCHANGED vars
       ELSE IF duration > 30
       THEN UNCHANGED vars
       ELSE IF uploaded
       THEN /\ fsmData' = update_data(update_data(fsmData, "video_url", "url"),
                                      "video_duration", duration)
            /\ fsm' = "MCStates:waiting_prompt"
            /\ UNCHANGED <<fsmCost, session>>
            /\ UNCHANGED ledgerVars
       ELSE UNCHANGED vars

\* show_mc_orientation: the orientation keyboard and the state
show_mc_orientation ==
    fsm' = "MCStates:waiting_orientation"

mc_prompt_received(text) ==
    /\ fsm = "MCStates:waiting_prompt"
    /\ fsmData' = update_data(fsmData, "prompt", text)
    /\ show_mc_orientation
    /\ UNCHANGED <<fsmCost, session>>
    /\ UNCHANGED ledgerVars

mc_prompt_skip ==
    /\ fsmData' = update_data(fsmData, "prompt", "")
    /\ show_mc_orientation
    /\ UNCHANGED <<fsmCost, session>>
    /\ UNCHANGED ledgerVars

mc_orientation_selected(orientation) ==
    /\ fsmData' = update_data(fsmData, "orientation", orientation)
    /\ fsm' = "MCStates:waiting_mode"
    /\ UNCHANGED <<fsmCost, session>>
    /\ UNCHANGED ledgerVars

\* a review that takes the cost from the balance when it shows it
mc_mode_selected_debits_at_review(video_duration, mode) ==
    LET cost == get_motion_control_price(video_duration, mode)
    IN  /\ IF balance < cost
           THEN /\ state_clear /\ session' = "closed"
                /\ UNCHANGED <<balance, ledger>>
           ELSE /\ fsmData' = update_data(fsmData, "mode", mode)
                /\ fsmCost' = cost
                /\ fsm' = "MCStates:confirming"
                /\ balance' = deduct_balance(balance, cost).balance
                /\ ledger' = ledger - cost
                /\ UNCHANGED session
        /\ UNCHANGED <<generations, taskState, poll, inflight, lastCallback, lastPoll,
                       sendFailures, confirms, initBalance, sender, awaiting, balanceBefore,
                       debits, refunds, redebits, writes>>

\* video_duration is data.get("video_duration", 5)
mc_mode_selected(video_duration, mode) ==
    LET cost == get_motion_control_price(video_duration, mode)
    IN  /\ IF balance < cost
           THEN state_clear /\ session' = "closed"
           ELSE /\ fsmData' = update_data(fsmData, "mode", mode)
                /\ fsmCost' = cost
                /\ fsm' = "MCStates:confirming"
                /\ UNCHANGED session
        /\ UNCHANGED ledgerVars

----------------------------------------------------------------------------
(* The provider *)

\* the task of generation g finishes: with result URLs, without, or failed
ProviderFinish(g, state) ==
    /\ g \in Gens
    /\ taskState[g] = "waiting"
    /\ state \in {"success", "success_no_urls", "fail"}
    /\ taskState' = [taskState EXCEPT ![g] = state]
    /\ UNCHANGED <<balance, generations, poll, fsm, fsmCost, fsmData, session,
                   inflight, lastCallback, lastPoll, sendFailures, confirms, initBalance, sender, awaiting, ledger,
                   balanceBefore, debits, refunds, redebits, writes>>

----------------------------------------------------------------------------
(* handlers/generate.py: poll_task_and_send_result *)

\* a loop without an attempt budget: where the budget is spent the task goes on
\* to another attempt
poll_timeout_keeps_polling(g) ==
    /\ poll' = [poll EXCEPT ![g] = [pc |-> "sleep", attempt |-> max_attempts]]
    /\ UNCHANGED <<balance, generations, ledger, refunds, writes>>

\* the code after the for loop without its refund
poll_timeout_no_refund(g) ==
    /\ generations' = [generations EXCEPT
                         ![g] = update_generation(@, "fail", "", "Timeout")]
    /\ writes' = [writes EXCEPT ![g] = @ + 1]
    /\ poll' = [poll EXCEPT ![g] = [pc |-> "done", attempt |-> max_attempts]]
    /\ UNCHANGED <<balance, ledger, refunds>>

\* the code after the for loop: status fail with "Timeout", refund, and the
\* message to the user, with which the task ends whether or not it raises
poll_timeout(g) ==
    LET cost == generations[g].cost
        r == update_user_balance(balance, cost)
    IN  /\ generations' = [generations EXCEPT
                             ![g] = update_generation(@, "fail", "", "Timeout")]
        /\ balance' = r.balance
        /\ ledger' = IF r.ok THEN ledger + cost ELSE ledger
        /\ refunds' = [refunds EXCEPT ![g] = @ + 1]
        /\ writes' = [writes EXCEPT ![g] = @ + 1]
        /\ poll' = [poll EXCEPT ![g] = [pc |-> "done", attempt |-> max_attempts]]

\* a loop in which an exception raised by get_task_status ends the task
poll_attempt_error_fatal(g, response) ==
    /\ g \in Gens
    /\ poll[g].pc = "sleep"
    /\ response \in {"error", taskState[g]}
    /\ LET n == poll[g].attempt + 1
           cost == generations[g].cost
           r == update_user_balance(balance, cost)
       IN  CASE response = "success" ->
                  /\ generations' = [generations EXCEPT
                                       ![g] = update_generation(@, "success", "url", "")]
                  /\ poll' = [poll EXCEPT ![g] = [pc |-> "send_success", attempt |-> n]]
                  /\ writes' = [writes EXCEPT ![g] = @ + 1]
                  /\ UNCHANGED <<balance, ledger, refunds>>
             [] response = "fail" ->
                  /\ generations' = [generations EXCEPT
                                       ![g] = update_generation(@, "fail", "", "failMsg")]
                  /\ balance' = r.balance
                  /\ ledger' = IF r.ok THEN ledger + cost ELSE ledger
                  /\ refunds' = [refunds EXCEPT ![g] = @ + 1]
                  /\ writes' = [writes EXCEPT ![g] = @ + 1]
                  /\ poll' = [poll EXCEPT ![g] = [pc |-> "send_fail", attempt |-> n]]
             [] response = "error" ->
                  /\ poll' = [poll EXCEPT ![g] = [pc |-> "done", attempt |-> n]]
                  /\ UNCHANGED <<balance, generations, ledger, refunds, writes>>
             [] OTHER ->
                  IF n = max_attempts
                  THEN poll_timeout(g)
                  ELSE /\ poll' = [poll EXCEPT ![g] = [pc |-> "sleep", attempt |-> n]]
                       /\ UNCHANGED <<balance, generations, ledger, refunds, writes>>
    /\ UNCHANGED <<taskState, fsm, fsmCost, fsmData, session, inflight, lastCallback,
                   sendFailures, confirms, initBalance, sender, awaiting, balanceBefore, debits, redebits>>

\* one iteration of the loop up to its next await: the sleep, get_task_status
\* (response "error": it raised) and the database writes for the state returned.
\* The history variable lastPoll is left to the next-state relation.
poll_attempt(g, response) ==
    /\ g \in Gens
    /\ poll[g].pc = "sleep"
    /\ response \in {"error", taskState[g]}
    /\ LET n == poll[g].attempt + 1
           cost == generations[g].cost
           r == update_user_balance(balance, cost)
       IN  CASE response = "success" ->
                  /\ generations' = [generations EXCEPT
                                       ![g] = update_generation(@, "success", "url", "")]
                  /\ poll' = [poll EXCEPT ![g] = [pc |-> "send_success", attempt |-> n]]
                  /\ writes' = [writes EXCEPT ![g] = @ + 1]
                  /\ UNCHANGED <<balance, ledger, refunds>>
             [] response = "fail" ->
                  /\ generations' = [generations EXCEPT
                                       ![g] = update_generation(@, "fail", "", "failMsg")]
                  /\ balance' = r.balance
                  /\ ledger' = IF r.ok THEN ledger + cost ELSE ledger
                  /\ refunds' = [refunds EXCEPT ![g] = @ + 1]
                  /\ writes' = [writes EXCEPT ![g] = @ + 1]
                  /\ poll' = [poll EXCEPT ![g] = [pc |-> "send_fail", attempt |-> n]]
             [] OTHER ->
                  \* waiting, success without result URLs, or an exception: next attempt
                  IF n = max_attempts
                  THEN poll_timeout(g)
                  ELSE /\ poll' = [poll EXCEPT ![g] = [pc |-> "sleep", attempt |-> n]]
                       /\ UNCHANGED <<balance, generations, ledger, refunds, writes>>
    /\ UNCHANGED <<taskState, fsm, fsmCost, fsmData, session, inflight, lastCallback,
                   sendFailures, confirms, initBalance, sender, awaiting, balanceBefore, debits, redebits>>



\* the sends that follow the writes: when they return the task returns; when
\* one raises, the loop's except clause logs it and the loop goes on
poll_send(g, raised) ==
    /\ g \in Gens
    /\ poll[g].pc \in {"send_success", "send_fail"}
    /\ IF ~raised
       THEN /\ poll' = [poll EXCEPT ![g].pc = "done"]
            /\ UNCHANGED <<balance, generations, ledger, refunds, writes, sendFailures>>
       ELSE /\ sendFailures < MaxSendFail
            /\ sendFailures' = sendFailures + 1
            /\ IF poll[g].attempt = max_attempts
               THEN poll_timeout(g)
               ELSE /\ poll' = [poll EXCEPT ![g].pc = "sleep"]
                    /\ UNCHANGED <<balance, generations, ledger, refunds, writes>>
    /\ UNCHANGED <<taskState, fsm, fsmCost, fsmData, session, inflight, lastCallback, lastPoll,
                   confirms, initBalance, sender, awaiting, balanceBefore, debits, redebits>>

----------------------------------------------------------------------------
(* webapp.py: POST /callback/kling *)

\* the check of the required fields without the state
all_fields_but_state(task_id, state, generation_id) ==
    task_id # "" /\ generation_id # 0

\* all([task_id, state, generation_id]): none of them is missing or empty
all_fields(task_id, state, generation_id) ==
    task_id # "" /\ state # "" /\ generation_id # 0

\* a callback that finds the row (get_generation_by_id) and takes state success
\* for a result, with or without a result URL
kling_callback_completes_without_url(task_id, state, generation_id, has_url) ==
    LET generation == get_generation_by_id(generations, generation_id)
        row == generation.row
        current_status == row.status
        d == deduct_balance(balance, row.cost)
        c == update_user_balance(balance, row.cost)
        log(response) ==
            lastCallback' = [response |-> response, state |-> state,
                             generation_id |-> generation_id,
                             has_url |-> state = "success" /\ has_url,
                             status |-> generations[generation_id].status,
                             task_id |-> task_id]
    IN  IF ~all_fields(task_id, state, generation_id)
        THEN /\ lastCallback' = [response |-> "missing_fields", state |-> "",
                                 generation_id |-> 0, has_url |-> FALSE,
                                 status |-> "", task_id |-> ""]
             /\ UNCHANGED <<balance, generations, ledger, refunds, redebits, writes>>
        ELSE IF ~generation.found
        THEN /\ log("not_found")
             /\ UNCHANGED <<balance, generations, ledger, refunds, redebits, writes>>
        ELSE /\ log("ok")
             /\ CASE state = "success" ->
                       /\ generations' = [generations EXCEPT ![generation_id] =
                              update_generation(@, "completed", "url", "")]
                       /\ writes' = [writes EXCEPT ![generation_id] = @ + 1]
                       /\ IF current_status = "fail"
                          THEN /\ balance' = d.balance
                               /\ ledger' = IF d.ok THEN ledger - row.cost ELSE ledger
                               /\ redebits' = [redebits EXCEPT ![generation_id] =
                                                 IF d.ok THEN @ + 1 ELSE @]
                          ELSE UNCHANGED <<balance, ledger, redebits>>
                       /\ UNCHANGED refunds
                  [] state = "fail" /\ current_status # "completed" ->
                       /\ generations' = [generations EXCEPT ![generation_id] =
                              update_generation(@, "fail", "", "failMsg")]
                       /\ writes' = [writes EXCEPT ![generation_id] = @ + 1]
                       /\ IF current_status \in {"processing", "pending"}
                          THEN /\ balance' = c.balance
                               /\ ledger' = IF c.ok THEN ledger + row.cost ELSE ledger
                               /\ refunds' = [refunds EXCEPT ![generation_id] = @ + 1]
                          ELSE UNCHANGED <<balance, ledger, refunds>>
                       /\ UNCHANGED redebits
                  [] OTHER ->
                       UNCHANGED <<balance, generations, ledger, refunds, redebits, writes>>

\* kling_callback.  task_id and state come from the body, generation_id from
\* the query string ("" and 0: absent); has_url: resultJson holds a result URL.
\* lastCallback keeps the response, and the taskId, state and generationId of a
\* request that passed the check for missing fields (has_url: of a success;
\* status: the row's status in the database when the request was served).
\* The code from db.get_generation to the return has no effect when that call
\* raises: the handler's except clause answers with an error.  That code is
\* given as one step: its awaits (the sends of lines 187-188 and 199-200) lie
\* between the balance update and update_generation.
kling_callback(task_id, state, generation_id, has_url) ==
    LET generation == get_generation(generations, generation_id)
        row == generation.row
        current_status == row.status
        d == deduct_balance(balance, row.cost)
        c == update_user_balance(balance, row.cost)
        log(response) ==
            lastCallback' = [response |-> response, state |-> state,
                             generation_id |-> generation_id,
                             has_url |-> state = "success" /\ has_url,
                             status |-> generations[generation_id].status,
                             task_id |-> task_id]
    IN  IF ~all_fields(task_id, state, generation_id)
        THEN /\ lastCallback' = [response |-> "missing_fields", state |-> "",
                                 generation_id |-> 0, has_url |-> FALSE,
                                 status |-> "", task_id |-> ""]
             /\ UNCHANGED <<balance, generations, ledger, refunds, redebits, writes>>
        ELSE IF generation.raised
        THEN /\ log("exception")
             /\ UNCHANGED <<balance, generations, ledger, refunds, redebits, writes>>
        ELSE IF ~generation.found
        THEN /\ log("not_found")
             /\ UNCHANGED <<balance, generations, ledger, refunds, redebits, writes>>
        ELSE /\ log("ok")
             /\ CASE state = "success" /\ has_url ->
                       /\ generations' = [generations EXCEPT ![generation_id] =
                              update_generation(@, "completed", "url", "")]
                       /\ writes' = [writes EXCEPT ![generation_id] = @ + 1]
                       /\ IF current_status = "fail"
                          THEN /\ balance' = d.balance
                               /\ ledger' = IF d.ok THEN ledger - row.cost ELSE ledger
                               /\ redebits' = [redebits EXCEPT ![generation_id] =
                                                 IF d.ok THEN @ + 1 ELSE @]
                          ELSE UNCHANGED <<balance, ledger, redebits>>
                       /\ UNCHANGED refunds
                  [] state = "fail" /\ current_status # "completed" ->
                       /\ generations' = [generations EXCEPT ![generation_id] =
                              update_generation(@, "fail", "", "failMsg")]
                       /\ writes' = [writes EXCEPT ![generation_id] = @ + 1]
                       /\ IF current_status \in {"processing", "pending"}
                          THEN /\ balance' = c.balance
                               /\ ledger' = IF c.ok THEN ledger + row.cost ELSE ledger
                               /\ refunds' = [refunds EXCEPT ![generation_id] = @ + 1]
                          ELSE UNCHANGED <<balance, ledger, refunds>>
                       /\ UNCHANGED redebits
                  [] OTHER ->
                       UNCHANGED <<balance, generations, ledger, refunds, redebits, writes>>

KlingCallback ==
    \E task_id \in {"", "task"}, state \in {"", "success", "fail"},
       generation_id \in {0} \cup Gens, has_url \in BOOLEAN :
        /\ kling_callback(task_id, state, generation_id, has_url)
        /\ UNCHANGED <<taskState, poll, fsm, fsmCost, fsmData, session, inflight,
                       lastPoll, sendFailures, confirms, initBalance, sender, awaiting, balanceBefore,
                       debits>>

----------------------------------------------------------------------------
\* what get_task_status may answer: it raises, or returns the state of the task
Responses == {"error", "waiting", "success", "success_no_urls", "fail"}

Next ==
    \/ \E duration \in Durations, with_audio \in BOOLEAN :
           t2v_audio_selected(duration, with_audio)
    \/ t2v_confirm
    \/ \E i \in 1..Len(inflight) : t2v_confirm_gateway_error(i)
    \/ \E i \in 1..Len(inflight), notified \in BOOLEAN : t2v_confirm_task_created(i, notified)
    \/ \E g \in Gens, state \in {"success", "success_no_urls", "fail"} :
           ProviderFinish(g, state)
    \/ \E g \in Gens, response \in Responses :
           poll_attempt(g, response) /\ UNCHANGED lastPoll
    \/ \E g \in Gens, raised \in BOOLEAN : poll_send(g, raised)
    \/ KlingCallback

Spec == Init /\ [][Next]_vars

----------------------------------------------------------------------------
(* One request from its review to the end of its polling task, with no       *)
(* callback from the provider; lastPoll records each response handled.       *)

\* a step of the polling task of generation g
PollStep(g) ==
    \/ \E response \in Responses :
           /\ poll_attempt(g, response)
           /\ lastPoll' = [generation_id |-> g, response |-> response]
    \/ \E raised \in BOOLEAN : poll_send(g, raised)

PollNext ==
    \/ \E duration \in Durations, with_audio \in BOOLEAN :
           t2v_audio_selected(duration, with_audio)
    \/ t2v_confirm
    \/ \E i \in 1..Len(inflight) : t2v_confirm_gateway_error(i)
    \/ \E i \in 1..Len(inflight), notified \in BOOLEAN : t2v_confirm_task_created(i, notified)
    \/ \E g \in Gens, state \in {"success", "success_no_urls", "fail"} :
           ProviderFinish(g, state)
    \/ \E g \in Gens : PollStep(g)

PollSpec == Init /\ [][PollNext]_vars

\* the polling task is an asyncio task of the running event loop: each of its
\* awaits (the sleep, the status query, the sends) returns or raises
FairPollSpec == PollSpec /\ \A g \in 1..MaxGen : WF_vars(PollStep(g))

----------------------------------------------------------------------------
(* The wizard of the three modes, up to the review.  A keyboard stays in the  *)
(* chat until its message is edited, and the chat outlives the sessions (and *)
(* the process, whose FSM storage is in memory): the callback data of any    *)
(* button may arrive in any state.                                           *)

\* the "duration" entry as the review handlers read it
DataDuration == int(data_get(fsmData, "duration", "5"))

WizardNext ==
    \/ cmd_generate
    \/ btn_generate_pressed
    \/ \E mode \in Modes : callback_gen_mode(mode)
    \/ callback_gen_cancel
    \/ \E text \in PromptTexts : t2v_prompt_received(text)
    \/ \E aspect \in AspectRatios : t2v_aspect_selected(aspect)
    \/ \E duration \in DurationButtons : t2v_duration_selected(duration)
    \/ \E with_audio \in BOOLEAN : t2v_audio_selected(DataDuration, with_audio)
    \/ \E uploaded \in BOOLEAN : i2v_image_received(uploaded)
    \/ \E text \in PromptTexts : i2v_prompt_received(text)
    \/ i2v_prompt_skip
    \/ \E duration \in DurationButtons : i2v_duration_selected(duration)
    \/ \E with_audio \in BOOLEAN : i2v_audio_selected(DataDuration, with_audio)
    \/ \E uploaded \in BOOLEAN : mc_image_received(uploaded)
    \/ \E duration \in VideoDurations, uploaded \in BOOLEAN :
           mc_video_received(duration, uploaded)
    \/ \E text \in PromptTexts : mc_prompt_received(text)
    \/ mc_prompt_skip
    \/ \E orientation \in Orientations : mc_orientation_selected(orientation)
    \/ \E mode \in Qualities :
           mc_mode_selected(data_get(fsmData, "video_duration", 5), mode)

WizardSpec == Init /\ [][WizardNext]_vars

----------------------------------------------------------------------------
(* The Text-to-Video wizard with its confirm step *)

SessionNext ==
    \/ cmd_generate
    \/ callback_gen_mode("t2v")
    \/ callback_gen_cancel
    \/ \E text \in PromptTexts : t2v_prompt_received(text)
    \/ \E aspect \in AspectRatios : t2v_aspect_selected(aspect)
    \/ \E duration \in DurationButtons : t2v_duration_selected(duration)
    \/ \E with_audio \in BOOLEAN : t2v_audio_selected(DataDuration, with_audio)
    \/ t2v_confirm
    \/ \E i \in 1..Len(inflight) : t2v_confirm_gateway_error(i)
    \/ \E i \in 1..Len(inflight), notified \in BOOLEAN : t2v_confirm_task_created(i, notified)

SessionSpec == Init /\ [][SessionNext]_vars

----------------------------------------------------------------------------
(* The review and confirm steps of Text-to-Video with a database whose       *)
(* insert into generations may fail                                          *)

RecordNext ==
    \/ \E duration \in Durations, with_audio \in BOOLEAN :
           t2v_audio_selected(duration, with_audio)
    \/ t2v_confirm
    \/ \E i \in 1..Len(inflight) : t2v_confirm_gateway_error(i)
    \/ \E i \in 1..Len(inflight), notified \in BOOLEAN : t2v_confirm_task_created(i, notified)
    \/ \E i \in 1..Len(inflight), notified \in BOOLEAN : t2v_confirm_record_failed(i, notified)

RecordSpec == Init /\ [][RecordNext]_vars

----------------------------------------------------------------------------
(* The Text-to-Video wizard with its review handler in two steps.  The       *)
(* updates reach the bot through POST /webhook, each request is served by    *)
(* its own coroutine, and the Dispatcher is built without events isolation:  *)
(* while t2v_audio_selected awaits the edit of its message (the call to      *)
(* Telegram between its update_data and its set_state) another handler of    *)
(* the same conversation may run.                                            *)

\* review handlers of one conversation that may await at the same time
MaxAwaiting == 1

\* t2v_audio_selected up to its edit_text: with_audio and the cost computed
\* from the stored duration are written to the FSM data, the balance is read
t2v_audio_selected_edit_text(with_audio) ==
    LET cost == get_t2v_i2v_price(DataDuration, with_audio)
    IN  /\ Len(awaiting) < MaxAwaiting
        /\ fsmData' = update_data(fsmData, "with_audio", with_audio)
        /\ fsmCost' = cost
        /\ awaiting' = Append(awaiting, [sufficient |-> balance >= cost])
        /\ UNCHANGED <<fsm, session>>
        /\ UNCHANGED <<balance, generations, taskState, poll, inflight, lastCallback,
                       lastPoll, sendFailures, confirms, initBalance, sender, ledger,
                       balanceBefore, debits, refunds, redebits, writes>>

\* t2v_audio_selected after its edit_text: state.clear() below the message
\* about the balance, set_state(confirming) below the review
t2v_audio_selected_set_state(i) ==
    /\ i \in 1..Len(awaiting)
    /\ IF awaiting[i].sufficient
       THEN /\ fsm' = "T2VStates:confirming"
            /\ UNCHANGED <<fsmCost, fsmData, session>>
       ELSE state_clear /\ session' = "closed"
    /\ awaiting' = RemoveAt(awaiting, i)
    /\ UNCHANGED <<balance, generations, taskState, poll, inflight, lastCallback,
                   lastPoll, sendFailures, confirms, initBalance, sender, ledger,
                   balanceBefore, debits, refunds, redebits, writes>>

ReviewNext ==
    \/ cmd_generate
    \/ callback_gen_mode("t2v")
    \/ callback_gen_cancel
    \/ \E text \in PromptTexts : t2v_prompt_received(text)
    \/ \E aspect \in AspectRatios : t2v_aspect_selected(aspect)
    \/ \E duration \in DurationButtons : t2v_duration_selected(duration)
    \/ \E with_audio \in BOOLEAN : t2v_audio_selected_edit_text(with_audio)
    \/ \E i \in 1..Len(awaiting) : t2v_audio_selected_set_state(i)

ReviewSpec == Init /\ [][ReviewNext]_vars

----------------------------------------------------------------------------
(* utils/result_sender.py: one call of send_video_result.  Each await may     *)
(* raise; sender.tried is the strategies attempted, sender.succeeded those    *)
(* whose sends returned, sender.chat what reached the user, sender.result     *)
(* the value returned.                                                        *)

Langs == {"ru", "en"}

\* message_prefix as passed: None, or a text of the caller
MessagePrefixes == {"None", "prefix"}

\* the strategies in the order of the docstring
Strategies == <<"url_document", "file_document", "file_video", "deeplink">>

\* the default prefix, which depends on the language
default_prefix(lang, message_prefix) ==
    IF message_prefix = "None"
    THEN IF lang = "ru" THEN "complete_ru" ELSE "complete_en"
    ELSE message_prefix

SenderInit ==
    /\ balance \in InitBalances
    /\ initBalance = balance
    /\ generations = <<>>
    /\ taskState = <<>>
    /\ poll = <<>>
    /\ fsm = "none"
    /\ fsmCost = 0
    /\ fsmData = EmptyData
    /\ session = "closed"
    /\ inflight = <<>>
    /\ lastPoll = NoPoll
    /\ lastCallback = [response |-> "none", state |-> "", generation_id |-> 0,
                       has_url |-> FALSE, status |-> "",
                       task_id |-> ""]
    /\ sendFailures = 0
    /\ confirms = 0
    /\ ledger = 0
    /\ balanceBefore = <<>>
    /\ debits = 0
    /\ refunds = <<>>
    /\ redebits = <<>>
    /\ writes = <<>>
    /\ awaiting = <<>>
    /\ \E lang \in Langs, message_prefix \in MessagePrefixes :
           sender = [pc |-> "url_document", lang |-> lang,
                     message_prefix |-> default_prefix(lang, message_prefix),
                     video_bytes |-> "None", tried |-> <<>>, succeeded |-> <<>>,
                     chat |-> <<>>, result |-> "None"]

\* the variables that send_video_result does not touch
senderFrame == <<balance, generations, taskState, poll, fsm, fsmCost, fsmData,
                 inflight, lastCallback, lastPoll, sendFailures, confirms,
                 initBalance, ledger, balanceBefore, debits, refunds, redebits,
                 writes, session, awaiting>>

\* step 1: the prefix message, then the document by its URL
send_document_by_url(message_raised, document_raised) ==
    /\ sender.pc = "url_document"
    /\ IF message_raised
       THEN sender' = [sender EXCEPT !.pc = "download",
                                     !.tried = Append(@, "url_document")]
       ELSE IF document_raised
       THEN sender' = [sender EXCEPT !.pc = "download",
                                     !.tried = Append(@, "url_document"),
                                     !.chat = Append(@, sender.message_prefix)]
       ELSE sender' = [sender EXCEPT !.pc = "returned",
                                     !.tried = Append(@, "url_document"),
                                     !.succeeded = Append(@, "url_document"),
                                     !.chat = @ \o <<sender.message_prefix, "document:url">>,
                                     !.result = "True"]
    /\ UNCHANGED senderFrame

\* the download: it raises (client.get or raise_for_status), or returns the
\* content, which may be empty; `if video_bytes:` skips steps 2 and 3 for an
\* empty content as for none
download_video(content) ==
    /\ sender.pc = "download"
    /\ content \in {"raised", "empty", "bytes"}
    /\ sender' = [sender EXCEPT
                    !.video_bytes = IF content = "raised" THEN "None" ELSE content,
                    !.pc = IF content = "bytes" THEN "file_document" ELSE "deeplink"]
    /\ UNCHANGED senderFrame

\* step 2: the downloaded bytes as a document
send_document_file(raised) ==
    /\ sender.pc = "file_document"
    /\ IF raised
       THEN sender' = [sender EXCEPT !.pc = "file_video",
                                     !.tried = Append(@, "file_document")]
       ELSE sender' = [sender EXCEPT !.pc = "returned",
                                     !.tried = Append(@, "file_document"),
                                     !.succeeded = Append(@, "file_document"),
                                     !.chat = Append(@, "document:file"),
                                     !.result = "True"]
    /\ UNCHANGED senderFrame

\* step 3: the downloaded bytes as a video
send_video_file(raised) ==
    /\ sender.pc = "file_video"
    /\ IF raised
       THEN sender' = [sender EXCEPT !.pc = "deeplink",
                                     !.tried = Append(@, "file_video")]
       ELSE sender' = [sender EXCEPT !.pc = "returned",
                                     !.tried = Append(@, "file_video"),
                                     !.succeeded = Append(@, "file_video"),
                                     !.chat = Append(@, "video:file"),
                                     !.result = "True"]
    /\ UNCHANGED senderFrame

\* step 4 without its except clause
send_deeplink_uncaught(raised) ==
    /\ sender.pc = "deeplink"
    /\ IF raised
       THEN sender' = [sender EXCEPT !.pc = "raised",
                                     !.tried = Append(@, "deeplink")]
       ELSE sender' = [sender EXCEPT !.pc = "returned",
                                     !.tried = Append(@, "deeplink"),
                                     !.succeeded = Append(@, "deeplink"),
                                     !.chat = Append(@, "deeplink"),
                                     !.result = "False"]
    /\ UNCHANGED senderFrame

\* step 4: the message with the button to the profile; False either way
send_deeplink(raised) ==
    /\ sender.pc = "deeplink"
    /\ IF raised
       THEN sender' = [sender EXCEPT !.pc = "returned",
                                     !.tried = Append(@, "deeplink"),
                                     !.result = "False"]
       ELSE sender' = [sender EXCEPT !.pc = "returned",
                                     !.tried = Append(@, "deeplink"),
                                     !.succeeded = Append(@, "deeplink"),
                                     !.chat = Append(@, "deeplink"),
                                     !.result = "False"]
    /\ UNCHANGED senderFrame

SenderNext ==
    \/ \E message_raised \in BOOLEAN, document_raised \in BOOLEAN :
           send_document_by_url(message_raised, document_raised)
    \/ \E content \in {"raised", "empty", "bytes"} : download_video(content)
    \/ \E raised \in BOOLEAN : send_document_file(raised)
    \/ \E raised \in BOOLEAN : send_video_file(raised)
    \/ \E raised \in BOOLEAN : send_deeplink(raised)

SenderSpec == SenderInit /\ [][SenderNext]_vars

----------------------------------------------------------------------------
(* The price of Text-to-Video and Image-to-Video for the durations           *)
(* 0..MaxDuration: the review handlers applied to a "duration" entry that is *)
(* the decimal text of any of them                                           *)

PricingInit ==
    /\ balance \in InitBalances \cup {DefaultBalance + HubAmountLarge}
    /\ initBalance = balance
    /\ \E d \in 0..MaxDuration :
           fsmData = update_data(EmptyData, "duration", ToString(d))
    /\ generations = <<>>
    /\ taskState = <<>>
    /\ poll = <<>>
    /\ fsm = "none"
    /\ fsmCost = 0
    /\ session = "closed"
    /\ inflight = <<>>
    /\ lastPoll = NoPoll
    /\ lastCallback = [response |-> "none", state |-> "", generation_id |-> 0,
                       has_url |-> FALSE, status |-> "",
                       task_id |-> ""]
    /\ sendFailures = 0
    /\ confirms = 0
    /\ ledger = 0
    /\ balanceBefore = <<>>
    /\ debits = 0
    /\ refunds = <<>>
    /\ redebits = <<>>
    /\ writes = <<>>
    /\ sender = NoSend
    /\ awaiting = <<>>

PricingNext ==
    \/ \E with_audio \in BOOLEAN : t2v_audio_selected(DataDuration, with_audio)
    \/ \E with_audio \in BOOLEAN : i2v_audio_selected(DataDuration, with_audio)

PricingSpec == PricingInit /\ [][PricingNext]_vars

----------------------------------------------------------------------------
(* The price of Motion-Control for the video durations 0..MaxVideoDuration:   *)
(* the review handler applied to a "video_duration" entry of any of them      *)

DataVideoDuration == data_get(fsmData, "video_duration", 5)

MotionPricingInit ==
    /\ balance \in InitBalances \cup {DefaultBalance + HubAmountLarge}
    /\ initBalance = balance
    /\ \E d \in 0..MaxVideoDuration :
           fsmData = update_data(EmptyData, "video_duration", d)
    /\ generations = <<>>
    /\ taskState = <<>>
    /\ poll = <<>>
    /\ fsm = "none"
    /\ fsmCost = 0
    /\ session = "closed"
    /\ inflight = <<>>
    /\ lastPoll = NoPoll
    /\ lastCallback = [response |-> "none", state |-> "", generation_id |-> 0,
                       has_url |-> FALSE, status |-> "",
                       task_id |-> ""]
    /\ sendFailures = 0
    /\ confirms = 0
    /\ ledger = 0
    /\ balanceBefore = <<>>
    /\ debits = 0
    /\ refunds = <<>>
    /\ redebits = <<>>
    /\ writes = <<>>
    /\ sender = NoSend
    /\ awaiting = <<>>

MotionPricingNext ==
    \E mode \in Qualities : mc_mode_selected(DataVideoDuration, mode)

MotionPricingSpec == MotionPricingInit /\ [][MotionPricingNext]_vars

----------------------------------------------------------------------------
(* The reconciler: refunds and status transitions *)

Status(g) == generations[g].status

\* in this step a /callback/kling request for generation g passed the check for
\* missing fields: a callback of the given state (a success: with a result URL)
CallbackServed(g, state) ==
    /\ lastCallback' # lastCallback
    /\ lastCallback'.generation_id = g
    /\ lastCallback'.state = state
    /\ state = "success" => lastCallback'.has_url

\* the last /callback/kling request served was such a callback for generation
\* g, and the status of g was status_then when it was served
LastCallbackWas(g, state, status_then) ==
    /\ lastCallback.generation_id = g
    /\ lastCallback.state = state
    /\ state = "success" => lastCallback.has_url
    /\ lastCallback.status = status_then

\* C1: the cost of a request is credited back by the completion signals at most
\* once, and only by the step that takes the request from pending to fail (the
\* write of fail is then its first terminal write).
C1_RefundOnceOnFirstFail ==
    [][\A g \in Gens :
          refunds'[g] # refunds[g] =>
              /\ refunds[g] = 0 /\ refunds'[g] = 1
              /\ Status(g) = "pending"
              /\ generations'[g].status = "fail"]_vars

\* C2: success is sticky: once the status of a request is success or completed,
\* no step changes the status or credits a refund for the request.
C2_SuccessSticky ==
    [][\A g \in Gens :
          Status(g) \in {"success", "completed"} =>
              /\ generations'[g].status = Status(g)
              /\ refunds'[g] = refunds[g]]_vars

\* C3: a success callback with a result URL served for a request whose status
\* is fail makes the status completed, and the balance stays >= 0.
C3_LateRecoveryCompletes ==
    [][\A g \in Gens :
          (CallbackServed(g, "success") /\ Status(g) = "fail") =>
              /\ generations'[g].status = "completed"
              /\ balance' >= 0]_vars


C5_RefundRestoresBalance ==
    [][\A g \in Gens :
          (Status(g) = "pending" /\ generations'[g].status = "fail" /\ debits = 1) =>
              balance' = balanceBefore[g]]_vars

\* a request went from pending to fail by a poll-observed fail or by the timeout
C5_Witness ==
    \E g \in Gens :
        /\ Status(g) = "fail" /\ writes[g] = 1 /\ debits = 1
        /\ balance = balanceBefore[g]
        /\ generations[g].error_message = "Timeout"

\* C6: a request in status fail changes (status, failure reason, refunds) only
\* by a Success outcome: a further Fail outcome rewrites nothing and credits
\* nothing.
C6_DuplicateFailNoOp ==
    [][\A g \in Gens :
          Status(g) = "fail" =>
              \/ generations'[g].status \in {"success", "completed"}
              \/ /\ generations'[g] = generations[g]
                 /\ refunds'[g] = refunds[g]]_vars

\* in this step the polling task of g handles a poll response of state success
\* that has result URLs
PollSuccess(g) == poll[g].pc = "sleep" /\ poll'[g].pc = "send_success"

C8_PendingSuccessWritesSuccess ==
    [][\A g \in Gens :
          (Status(g) = "pending" /\ (PollSuccess(g) \/ CallbackServed(g, "success"))) =>
              /\ generations'[g].status = "success"
              /\ balance' = balance]_vars

\* C9: the balance is never negative, and a confirm whose debit is rejected
\* (the balance does not cover the cost) leaves the balance as it is.
C9_BalanceNonNegative ==
    /\ [](balance >= 0)
    /\ [][(confirms' # confirms /\ debits' = debits) =>
             (balance < fsmCost /\ balance' = balance)]_vars

\* a confirm-time debit was rejected: the balance could not cover the cost
C9_Witness ==
    /\ confirms > debits
    /\ balance < T2V_I2V_5S_NO_AUDIO

----------------------------------------------------------------------------
(* The confirm step: gateway errors and insufficient balance *)

\* in this step the t2v_confirm invocation inflight[i] ends without a generation
\* row: create_text_to_video raised or returned no taskId
GatewayError(i) ==
    /\ inflight' = RemoveAt(inflight, i)
    /\ Len(generations') = Len(generations)

\* after the step the conversation has no state and no data
SessionCleared ==
    /\ fsm' = "none"
    /\ fsmCost' = 0
    /\ DOMAIN fsmData' = {}

\* the step debits nothing, submits nothing and creates no generation row
NothingSubmitted ==
    /\ balance' = balance
    /\ debits' = debits
    /\ inflight' = inflight
    /\ generations' = generations
    /\ poll' = poll

C12_GatewayErrorRecorded ==
    [][\A i \in 1..Len(inflight) :
          GatewayError(i) =>
              \E g \in 1..Len(generations') :
                  /\ generations'[g].status = "fail"
                  /\ generations'[g].cost = inflight[i].cost]_vars

----------------------------------------------------------------------------
(* The wizard *)

\* C14: cancel is possible in every state, and a cancel leaves no state and no
\* data, and the balance and the generation rows as they are.
C14_CancelDiscards ==
    /\ [](ENABLED callback_gen_cancel)
    /\ [][callback_gen_cancel =>
             (SessionCleared /\ balance' = balance /\ generations' = generations)]_vars

\* the session was cancelled and nothing of it is left
C14_Witness ==
    /\ session = "cancelled"
    /\ fsm = "none" /\ fsmCost = 0 /\ DOMAIN fsmData = {}

\* C15: the state changes only to the next step of the same mode, to the first
\* step of a mode by a mode selection, or to no state.
C15_StrictLinearity ==
    [][fsm' # fsm =>
          \/ fsm' = "none"
          \/ \E mode \in Modes : callback_gen_mode(mode)
          \/ \E mode \in Modes : \E k \in 1..(Len(Steps(mode)) - 1) :
                 fsm = Steps(mode)[k] /\ fsm' = Steps(mode)[k + 1]]_vars

\* C16: a debit or a gateway submission happens only while a session is open:
\* a mode selection took place and no cancel and no other end of the session
\* since.
C16_NoDebitOutsideSession ==
    [][(debits' # debits \/ Len(inflight') > Len(inflight)) =>
          session = "open"]_vars

\* C17: right after a mode selection the session has no collected fields.
C17_ModeSelectionDiscards ==
    [][(\E mode \in Modes : callback_gen_mode(mode)) =>
          (DOMAIN fsmData' = {} /\ fsmCost' = 0)]_vars

\* the state is step k of the mode; after the step it is step k of the mode
At(mode, k) == fsm = Steps(mode)[k]
To(mode, k) == fsm' = Steps(mode)[k]

\* C18: a mode selection sets the first step of the mode, and the input of
\* step k, handled in step k, sets step k+1 of the mode (an image or a video:
\* when its upload succeeds; the last input: when the balance covers the cost,
\* and else the review ends the session); a skipped prompt is stored as "".
C18_StepOrder ==
    [][/\ \A mode \in Modes : callback_gen_mode(mode) => To(mode, 1)
       /\ \A text \in PromptTexts :
             (At("t2v", 1) /\ t2v_prompt_received(text)) => To("t2v", 2)
       /\ \A aspect \in AspectRatios :
             (At("t2v", 2) /\ t2v_aspect_selected(aspect)) => To("t2v", 3)
       /\ \A duration \in DurationButtons :
             (At("t2v", 3) /\ t2v_duration_selected(duration)) => To("t2v", 4)
       /\ \A with_audio \in BOOLEAN :
             (At("t2v", 4) /\ t2v_audio_selected(DataDuration, with_audio)) =>
                 IF balance < get_t2v_i2v_price(DataDuration, with_audio)
                 THEN fsm' = "none" ELSE To("t2v", 5)
       /\ (At("i2v", 1) /\ i2v_image_received(TRUE)) => To("i2v", 2)
       /\ \A text \in PromptTexts :
             (At("i2v", 2) /\ i2v_prompt_received(text)) => To("i2v", 3)
       /\ (At("i2v", 2) /\ i2v_prompt_skip) =>
             (To("i2v", 3) /\ fsmData'["prompt"] = "")
       /\ \A duration \in DurationButtons :
             (At("i2v", 3) /\ i2v_duration_selected(duration)) => To("i2v", 4)
       /\ \A with_audio \in BOOLEAN :
             (At("i2v", 4) /\ i2v_audio_selected(DataDuration, with_audio)) =>
                 IF balance < get_t2v_i2v_price(DataDuration, with_audio)
                 THEN fsm' = "none" ELSE To("i2v", 5)
       /\ (At("mc", 1) /\ mc_image_received(TRUE)) => To("mc", 2)
       /\ \A duration \in VideoDurations :
             (At("mc", 2) /\ 3 <= duration /\ duration <= 30
                /\ mc_video_received(duration, TRUE)) => To("mc", 3)
       /\ \A text \in PromptTexts :
             (At("mc", 3) /\ mc_prompt_received(text)) => To("mc", 4)
       /\ (At("mc", 3) /\ mc_prompt_skip) =>
             (To("mc", 4) /\ fsmData'["prompt"] = "")
       /\ \A orientation \in Orientations :
             (At("mc", 4) /\ mc_orientation_selected(orientation)) => To("mc", 5)
       /\ \A mode \in Qualities :
             (At("mc", 5)
                /\ mc_mode_selected(data_get(fsmData, "video_duration", 5), mode)) =>
                 IF balance < get_motion_control_price(
                                  data_get(fsmData, "video_duration", 5), mode)
                 THEN fsm' = "none" ELSE To("mc", 6)]_vars

\* a Motion Control session at its confirm step with the fields of its five
\* steps and no others, the prompt skipped
C18_Witness ==
    /\ fsm = "MCStates:confirming"
    /\ session = "open"
    /\ DOMAIN fsmData = {"image_url", "video_url", "video_duration", "prompt",
                         "orientation", "mode"}
    /\ fsmData["prompt"] = ""

\* after the step the video of that duration is stored and the step is the prompt step
VideoStored(duration) ==
    /\ fsm' = "MCStates:waiting_prompt"
    /\ fsmData' = update_data(update_data(fsmData, "video_url", "url"),
                              "video_duration", duration)

\* C19 as stated: at the video step a video shorter than 3 or longer than 30
\* seconds changes nothing, and every video of 3 to 30 seconds is stored and
\* sets the prompt step.
C19_VideoDurationAsStated ==
    fsm = "MCStates:waiting_video" =>
        \A duration \in VideoDurations, uploaded \in BOOLEAN :
            IF duration < 3 \/ duration > 30
            THEN ~ENABLED (mc_video_received(duration, uploaded) /\ vars' # vars)
            ELSE ~ENABLED (mc_video_received(duration, uploaded)
                             /\ ~VideoStored(duration))

\* C19: at the video step a video shorter than 3 or longer than 30 seconds
\* changes nothing; a video of 3 to 30 seconds is stored and sets the prompt
\* step when its upload succeeds, and changes nothing when it does not.
C19_VideoDuration ==
    fsm = "MCStates:waiting_video" =>
        \A duration \in VideoDurations, uploaded \in BOOLEAN :
            IF duration < 3 \/ duration > 30 \/ ~uploaded
            THEN ~ENABLED (mc_video_received(duration, uploaded) /\ vars' # vars)
            ELSE /\ ENABLED (mc_video_received(duration, uploaded)
                               /\ VideoStored(duration))
                 /\ ~ENABLED (mc_video_received(duration, uploaded)
                                /\ ~VideoStored(duration))

\* a video of 30 seconds was stored and the step is the prompt step
C19_Witness ==
    /\ fsm = "MCStates:waiting_prompt"
    /\ "video_duration" \in DOMAIN fsmData
    /\ fsmData["video_duration"] = 30

----------------------------------------------------------------------------
(* The price table *)

\* C20: the cost of a reviewed Text-to-Video or Image-to-Video request is 55
\* for 5 seconds without audio, 110 for 10 seconds without, 110 for 5 seconds
\* with audio, 220 for 10 seconds with, and for any other duration the cost of
\* 5 seconds with the same audio flag.
C20_T2VI2VPrice ==
    fsm \in {"T2VStates:confirming", "I2VStates:confirming"} =>
        LET d == DataDuration
            a == fsmData["with_audio"]
        IN  /\ (d = 5 /\ ~a) => fsmCost = 55
            /\ (d = 10 /\ ~a) => fsmCost = 110
            /\ (d = 5 /\ a) => fsmCost = 110
            /\ (d = 10 /\ a) => fsmCost = 220
            /\ d \notin {5, 10} => fsmCost = (IF a THEN 110 ELSE 55)

\* a request of a duration other than 5 and 10 seconds, with audio, was reviewed
C20_Witness ==
    /\ fsm = "T2VStates:confirming"
    /\ DataDuration \notin {5, 10}
    /\ fsmData["with_audio"]
    /\ fsmCost = 110

\* C21: the cost of a reviewed Motion-Control request of video duration d and
\* quality q is max(5, d) times 6 (720p) or 9 (1080p): 30 for (4, 720p), 72 for
\* (8, 1080p); and no shorter video of the same quality costs more.
C21_MotionControlPrice ==
    fsm = "MCStates:confirming" =>
        LET d == DataVideoDuration
            q == fsmData["mode"]
        IN  /\ fsmCost = (IF d < 5 THEN 5 ELSE d) * (IF q = "720p" THEN 6 ELSE 9)
            /\ (d = 4 /\ q = "720p") => fsmCost = 30
            /\ (d = 8 /\ q = "1080p") => fsmCost = 72
            /\ \A e \in 0..d : get_motion_control_price(e, q) <= fsmCost

\* a Motion-Control request of a 4-second video in 720p was reviewed at 30
C21_Witness ==
    /\ fsm = "MCStates:confirming"
    /\ DataVideoDuration = 4
    /\ fsmData["mode"] = "720p"
    /\ fsmCost = 30

----------------------------------------------------------------------------
(* The polling task *)

\* the polling task of generation g was started and has not ended
Polling(g) == g \in Gens /\ poll[g].pc \notin {"none", "done"}

\* the polling task of generation g has ended
PollEnded(g) == g \in Gens /\ poll[g].pc = "done"

\* C22: a polling task makes at most max_attempts (60) status queries, and once
\* started it ends, whatever get_task_status answers.
C22_PollTerminates ==
    /\ [](\A g \in Gens : poll[g].attempt <= 60)
    /\ \A g \in 1..MaxGen : Polling(g) ~> PollEnded(g)

\* a polling task has ended after 60 queries that all found the task waiting
\* or raised
C22_Witness ==
    \E g \in Gens :
        /\ PollEnded(g) /\ poll[g].attempt = 60
        /\ taskState[g] = "waiting"
        /\ generations[g].error_message = "Timeout"

\* the last response handled by a polling task was a terminal state of the
\* task of generation g
TerminalObserved(g) ==
    /\ lastPoll.generation_id = g
    /\ lastPoll.response \in {"success", "success_no_urls", "fail"}

\* C23: the polling task stops at the first response whose state is success or
\* fail: handling that response writes the status, and after it the task makes
\* no further status query.
C23_StopsAtFirstTerminal ==
    [][\A g \in Gens :
          /\ (lastPoll' # lastPoll /\ TerminalObserved(g)') =>
                 writes'[g] = writes[g] + 1
          /\ TerminalObserved(g) => poll'[g].attempt = poll[g].attempt]_vars

\* C24: a polling task writes the status of its request exactly once in its
\* lifetime (never twice, and once by the time it ends), and credits at most
\* one refund.
C24_ExactlyOneTransition ==
    \A g \in Gens :
        /\ writes[g] <= 1
        /\ refunds[g] <= 1
        /\ PollEnded(g) => writes[g] = 1

\* in this step the polling task of generation g spends its budget: the code
\* after the loop runs (the last query found no terminal state with a result,
\* or the send after it raised)
PollTimeout(g) ==
    /\ poll[g].pc # "done" /\ poll'[g].pc = "done"
    /\ poll[g].pc = "sleep" \/ sendFailures' # sendFailures

\* in this step the polling task of generation g handles a response of state fail
PollFail(g) == poll[g].pc = "sleep" /\ poll'[g].pc = "send_fail"

\* C25: when the polling task spends its budget while the request is pending,
\* the request is set to fail and its cost is credited once; a response of
\* state fail for a pending request has the same effect on status and balance.
C25_TimeoutAsFail ==
    [][\A g \in Gens :
          (Status(g) = "pending" /\ (PollTimeout(g) \/ PollFail(g))) =>
              /\ generations'[g].status = "fail"
              /\ balance' = balance + generations[g].cost
              /\ refunds[g] = 0 /\ refunds'[g] = 1
              /\ writes'[g] = 1]_vars

\* a polling task spent its budget on 60 responses none of which was terminal:
\* the request is fail with "Timeout" and refunded once
C25_Witness ==
    \E g \in Gens :
        /\ PollEnded(g) /\ poll[g].attempt = 60
        /\ lastPoll = [generation_id |-> g, response |-> "waiting"]
        /\ Status(g) = "fail" /\ generations[g].error_message = "Timeout"
        /\ refunds[g] = 1 /\ writes[g] = 1
        /\ balance = balanceBefore[g]

----------------------------------------------------------------------------
(* The callback and the polling task *)

C27_MissingFieldsRejected ==
    [][lastCallback' # lastCallback =>
          IF lastCallback'.response = "missing_fields"
          THEN generations' = generations /\ balance' = balance
          ELSE /\ lastCallback'.task_id # ""
               /\ lastCallback'.state # ""
               /\ lastCallback'.generation_id # 0]_vars

\* a callback with a missing field was served while a request was pending and
\* its cost debited
C27_Witness ==
    /\ lastCallback.response = "missing_fields"
    /\ \E g \in Gens : Status(g) = "pending" /\ balance = balanceBefore[g] - generations[g].cost

\* in this step the polling task of generation g handles a status query that
\* raised
PollError(g) ==
    /\ poll'[g].attempt = poll[g].attempt + 1
    /\ lastPoll' = [generation_id |-> g, response |-> "error"]

\* C28: a status query that raises changes neither the row nor the balance and
\* the task goes on to its next attempt; when it was the last attempt, the
\* task goes on to the code after the loop (fail with "Timeout").
C28_QueryErrorNotFatal ==
    [][\A g \in Gens :
          PollError(g) =>
              IF poll'[g].attempt < 60
              THEN /\ generations' = generations
                   /\ balance' = balance
                   /\ poll'[g].pc = "sleep"
              ELSE /\ poll'[g].pc = "done"
                   /\ generations'[g].status = "fail"
                   /\ generations'[g].error_message = "Timeout"]_vars

\* a status query raised while the request was pending: it still is, and the
\* task waits for its next attempt
C28_Witness ==
    \E g \in Gens :
        /\ lastPoll = [generation_id |-> g, response |-> "error"]
        /\ poll[g].pc = "sleep" /\ poll[g].attempt >= 1
        /\ Status(g) = "pending" /\ writes[g] = 0
        /\ balance = balanceBefore[g] - generations[g].cost

\* in this step a send of the polling task of generation g (the success message
\* and video, or the failure notice) raises
PollSendRaised(g) ==
    /\ poll[g].pc \in {"send_success", "send_fail"}
    /\ poll'[g] # poll[g]
    /\ sendFailures' # sendFailures

\* C29: a send of the result or of the failure notice that raises changes
\* neither the status of the request nor the balance.
C29_DeliveryFailureChangesNothing ==
    [][\A g \in Gens :
          PollSendRaised(g) =>
              /\ generations'[g].status = Status(g)
              /\ balance' = balance]_vars

\* C30: every generation row that is created eventually leaves pending.
C30_EventuallyLeavesPending ==
    \A g \in 1..MaxGen :
        (g \in Gens) ~> (g \in Gens /\ Status(g) \in {"success", "fail", "completed"})

\* C31: the cost of a generation row is the amount debited by the confirm that
\* created it, no later step changes it, and every refund and every re-debit
\* for the row moves the balance by exactly that amount.
C31_CostFixedAtCreation ==
    [][/\ debits' # debits =>
              /\ inflight' = Append(inflight, inflight'[Len(inflight')])
              /\ inflight'[Len(inflight')].cost = balance - balance'
       /\ Len(generations') > Len(generations) =>
              \E i \in 1..Len(inflight) :
                  /\ inflight' = RemoveAt(inflight, i)
                  /\ generations'[Len(generations')].cost = inflight[i].cost
                  /\ balance' # balance => balance' = balance + inflight[i].cost
       /\ \A g \in Gens :
              /\ generations'[g].cost = generations[g].cost
              /\ refunds'[g] # refunds[g] => balance' = balance + generations[g].cost
              /\ redebits'[g] # redebits[g] => balance' = balance - generations[g].cost]_vars

\* a request debited 110 credits whose polling task wrote fail and refunded:
\* the row still says 110 and the balance is the one before the confirm
C31_Witness ==
    \E g \in Gens :
        /\ generations[g].cost = T2V_I2V_10S_NO_AUDIO
        /\ Status(g) = "fail"
        /\ refunds[g] = 1
        /\ debits = 1
        /\ balance = balanceBefore[g]

\* C32: no step of the wizard before the confirm (/generate, the mode
\* selection, the steps that collect a parameter, the skip buttons, the review
\* that shows the cost, the cancel button) changes the balance.
C32_WizardLeavesBalance ==
    [][/\ balance' = balance
       /\ ledger' = ledger
       /\ debits' = debits]_vars

\* a Motion-Control session at its review, the cost shown and not yet taken
C32_Witness ==
    /\ fsm = "MCStates:confirming"
    /\ session = "open"
    /\ fsmCost = MC_MIN_DURATION * MC_1080P_PER_SEC
    /\ balance = initBalance
    /\ ledger = 0

\* the position of a strategy in the order of the docstring
Rank(strategy) == CHOOSE k \in 1..Len(Strategies) : Strategies[k] = strategy

\* the strategies that deliver the video itself
VideoStrategies == {"url_document", "file_document", "file_video"}

Range(seq) == {seq[k] : k \in 1..Len(seq)}

\* C33: send_video_result attempts its strategies in the order URL document,
\* downloaded document, downloaded video, deeplink; nothing is attempted after
\* a strategy that succeeded; the value returned is True exactly when one of
\* the first three succeeded; the deeplink is attempted only when none of them
\* did (the URL document raised, and the two downloaded forms raised or there
\* were no bytes to send); and the call ends by returning, never by raising.
C33_FallbackOrder ==
    /\ sender.pc # "raised"
    /\ \A j, k \in 1..Len(sender.tried) :
           j < k => Rank(sender.tried[j]) < Rank(sender.tried[k])
    /\ Len(sender.succeeded) <= 1
    /\ sender.succeeded # <<>> =>
           /\ sender.pc = "returned"
           /\ sender.tried[Len(sender.tried)] = sender.succeeded[1]
    /\ sender.pc = "returned" =>
           /\ sender.result \in {"True", "False"}
           /\ sender.result = "True" <=> Range(sender.succeeded) \cap VideoStrategies # {}
    /\ sender.pc # "returned" => sender.result = "None"
    /\ "deeplink" \in Range(sender.tried) =>
           /\ Range(sender.succeeded) \cap VideoStrategies = {}
           /\ "url_document" \in Range(sender.tried)
           /\ \/ sender.video_bytes # "bytes"
              \/ {"file_document", "file_video"} \subseteq Range(sender.tried)

\* all of the first three raised and the deeplink was sent: False is returned
C33_Witness ==
    /\ sender.pc = "returned"
    /\ sender.tried = Strategies
    /\ sender.succeeded = <<"deeplink">>
    /\ sender.result = "False"

\* the request of generation g was the only confirm-time debit, no confirm is
\* awaiting the gateway and the polling task of g has ended or was never started
Quiescent(g) ==
    /\ debits = 1
    /\ inflight = <<>>
    /\ poll[g].pc \in {"done", "none"}

\* what the request of generation g has cost the user so far
NetCharge(g) == balanceBefore[g] - balance

\* C34: for a single request at quiescence, status fail means a net charge of
\* 0, status success or completed means a net charge of the cost (or of 0 with
\* a balance too small for the re-debit), and the net charge is never negative.
C34_LedgerConservation ==
    \A g \in Gens :
        Quiescent(g) =>
            /\ Status(g) = "fail" => NetCharge(g) = 0
            /\ Status(g) \in {"success", "completed"} =>
                   \/ NetCharge(g) = generations[g].cost
                   \/ NetCharge(g) = 0 /\ balance < generations[g].cost
            /\ NetCharge(g) >= 0

\* C35: a confirm that debited ends (its invocation leaves the gateway) either
\* with the cost credited back or with a new generation row whose polling task
\* has been started.
C35_NoOrphanedDebit ==
    [][\A i \in 1..Len(inflight) :
          inflight' = RemoveAt(inflight, i) =>
              \/ balance' = balance + inflight[i].cost
              \/ /\ Len(generations') = Len(generations) + 1
                 /\ generations'[Len(generations')].cost = inflight[i].cost
                 /\ poll'[Len(poll')].pc = "sleep"]_vars

\* C36: a confirm whose error branch credits the cost back has created no
\* generation row: the step that ends the invocation with the refund leaves
\* the table as it was.
C36_RefundExcludesRecord ==
    [][\A i \in 1..Len(inflight) :
          (/\ inflight' = RemoveAt(inflight, i)
           /\ balance' = balance + inflight[i].cost) =>
              generations' = generations]_vars

\* the price of what the confirm handler of the current state would submit:
\* duration and with_audio of the FSM data for Text-to-Video and
\* Image-to-Video, video_duration and mode for Motion-Control
PriceOfStoredParameters ==
    IF fsm = "MCStates:confirming"
    THEN get_motion_control_price(DataVideoDuration, data_get(fsmData, "mode", "720p"))
    ELSE get_t2v_i2v_price(DataDuration, data_get(fsmData, "with_audio", FALSE))

\* the cost as the confirm handler of the current state reads it:
\* data.get("cost", 55), and data.get("cost", 30) for Motion-Control
CostDefault == IF fsm = "MCStates:confirming" THEN 30 ELSE 55

StoredCost == IF fsmCost = 0 THEN CostDefault ELSE fsmCost

\* C37: in a confirming state the cost that the confirm step will debit is the
\* price of the parameters that it will submit.
C37_CostMatchesParameters ==
    fsm \in {"T2VStates:confirming", "I2VStates:confirming", "MCStates:confirming"} =>
        StoredCost = PriceOfStoredParameters

\* C38: the confirm input of a session debits once and submits once: no
\* confirm debits while an earlier confirm of the session is still awaiting
\* the gateway.  (In Spec a conversation is one run of review and confirm
\* steps: nothing but the end of a confirm closes a session.)
C38_OneDebitPerSession ==
    [][debits' # debits => inflight = <<>>]_vars

\* C39: a callback with state success and no result URL (resultJson missing,
\* empty or not JSON), for a request in whatever status, changes no generation
\* row and leaves the balance as it is.
C39_SuccessWithoutUrlChangesNothing ==
    [][(/\ lastCallback' # lastCallback
        /\ lastCallback'.state = "success"
        /\ ~lastCallback'.has_url) =>
           /\ generations' = generations
           /\ balance' = balance
           /\ ledger' = ledger]_vars

\* a success without a result URL was served for a request that the polling
\* task had written fail and refunded: it is still fail, and still refunded
C39_Witness ==
    \E g \in Gens :
        /\ lastCallback.generation_id = g
        /\ lastCallback.state = "success"
        /\ ~lastCallback.has_url
        /\ lastCallback.status = "fail"
        /\ Status(g) = "fail"
        /\ refunds[g] = 1
        /\ balance = balanceBefore[g]

====
